---- MODULE Spec2Model ----
(***************************************************************************)
(* Recommendation engine of the social-network backend                     *)
(* (src/src/recommendation/recommendation.service.ts, second class body,   *)
(* lines 570-1431): the read-through cached post pipeline                  *)
(* getRecommendedPosts, the profile builder, the fallback cascade and the  *)
(* people recommender getRecommendedUsers.                                 *)
(*                                                                         *)
(* Numbers: scores are kept in thousandths of a point (fixed point), so    *)
(* 8 points are 8000.  Ages are hours.                                     *)
(***************************************************************************)
EXTENDS Integers, Sequences, FiniteSets, TLC

\* ------------------------------------------------------------------ bounds
\* Largest limit a request asks for.
MaxLimit == 2
\* Number of calls in one behaviour.
MaxCalls == 2
\* Number of backend outages in one behaviour.
MaxFaults == 1
\* Number of archive and expiry events in one behaviour.
MaxChanges == 1

\* ------------------------------------------------------- program constants
CACHE_TTL == 300
MAX_POSTS_TO_SCORE == 200

\* --------------------------------------------------------------- universes
Users == {"u1", "u2"}
Authors == Users \cup {"a3"}
Tags == {"t1"}
Limits == 1..MaxLimit
NoTribe == "none"
Tribes == {"tr1"}
None == [none |-> TRUE]

\* Hours: within 3 days, within 7 days, within 30 days, older.
AgeVals == {1, 100, 400, 1000}
LikeVals == {0, 5}

\* ------------------------------------------------------------------ state
VARIABLES
  posts,        \* post store: PostIds -> post document (static fields)
  archived,     \* post store: set of ids whose archived flag is true
  views,        \* post-view store: set of <<userId, postId>> records
  following,    \* user store: userId -> set of followed user ids
  gInterests,   \* graph: userId -> (tag -> [w, days]) INTERESTED_IN edges
  gInteract,    \* graph: userId -> (postId -> summed weight) INTERACTED_WITH
  gFollows,     \* graph: set of <<follower, followed>> FOLLOWS edges
  cache,        \* cache manager: key -> None or [val, ttl, by]
  req,          \* in-flight requests: slot -> request record
  down,         \* backends that reject calls now: "cache", "store", "graph"
  calls,        \* number of calls started so far
  faults,       \* number of outages so far
  changes,      \* number of archive and expiry events so far
  lastRet,      \* history: result key -> list last returned for it and still cached
  prof,         \* last profile built by buildUserProfile with its inputs
  urec,         \* last answer of getRecommendedUsers with its request
  viewDocs,     \* post-view store: <<userId, postId>> -> number of documents
  divr,         \* last answer of applyDiversityFilters with its input
  scored,       \* last answer of scorePostsAdvanced with its profile
  shuf          \* the run of shuffleWithRelevance: remaining, result, draws

vars == <<posts, archived, views, following, gInterests, gInteract, gFollows,
          cache, req, down, calls, faults, changes, lastRet, prof, urec,
          viewDocs, divr, scored, shuf>>

\* The ids of the stored posts.
PostIds == DOMAIN posts

\* --------------------------------------------------------------- sequences
Range(s) == {s[i] : i \in 1..Len(s)}

Take(s, n) == IF n <= 0 THEN <<>> ELSE SubSeq(s, 1, IF n < Len(s) THEN n ELSE Len(s))

\* Array.prototype.sort with comparator (a, b) => b.k - a.k: descending by k,
\* stable (elements of equal k keep their order).
InsertDesc(t, x) ==
  LET i == Cardinality({j \in 1..Len(t) : t[j].k >= x.k})
  IN SubSeq(t, 1, i) \o <<x>> \o SubSeq(t, i + 1, Len(t))

RECURSIVE SortDesc(_)
SortDesc(s) ==
  IF s = <<>> THEN <<>>
  ELSE InsertDesc(SortDesc(SubSeq(s, 1, Len(s) - 1)), s[Len(s)])

RECURSIVE SeqOfSet(_)
SeqOfSet(S) ==
  IF S = {} THEN <<>>
  ELSE LET x == CHOOSE y \in S : \A z \in S : y <= z
       IN <<x>> \o SeqOfSet(S \ {x})

\* ------------------------------------------------------------- post store
\* .find(filter).sort({createdAt: -1}).limit(n): the matching ids, newest
\* first (posts of equal age in id order), at most n of them.
ByRecency(S) ==
  LET keyed == [i \in 1..Cardinality(S) |->
                 LET p == SeqOfSet(S)[i]
                 IN [v |-> p, k |-> 0 - (posts[p].age * 100 + p)]]
      sorted == SortDesc(keyed)
  IN [i \in 1..Len(sorted) |-> sorted[i].v]

StoreFind(S, n) == Take(ByRecency(S), n)

ViewedOf(u) == {p \in PostIds : <<u, p>> \in views}

\* ------------------------------------------------------------------ cache
\* Keys of the cache manager.
RecKey(u, l) == <<"recommendations", u, l>>
FallbackKey(l) == <<"fallback_posts", l>>
InterestsKey(u) == <<"user_interests", u>>
FollowingKey(u) == <<"user_following", u>>
UserRecKey(u, l) == <<"user_recommendations", u, l>>

CacheKeys ==
  {RecKey(u, l) : u \in Users, l \in Limits} \cup {FallbackKey(l) : l \in Limits}
  \cup {InterestsKey(u) : u \in Users} \cup {FollowingKey(u) : u \in Users}
  \cup {UserRecKey(u, l) : u \in Users, l \in Limits}

\* cacheManager.set(key, val, ttl).  by: the request (user, or user and limit)
\* the value was computed for (history only; the program does not store it).
CacheSet(c, key, val, ttl, by) ==
  [c EXCEPT ![key] = [val |-> val, ttl |-> ttl, by |-> by]]

\* `if (cached)`: every stored array, map or set is truthy, the empty ones too.
IsHit(c, key) == c[key] # None

\* ------------------------------------------------------- failure outcomes
\* What each awaited call of one step does: TRUE when it resolves, FALSE when
\* it rejects.  c, cw: cache get and set on the result and fallback keys,
\* cs: cache calls on the per-signal keys, st: document store, g: graph.
Outcomes(c, cw, cs, st, g) ==
  [cGet |-> c, cSet |-> cw,
   cgI |-> cs, cgF |-> cs, csI |-> cs, csF |-> cs,
   gi |-> g, gx |-> g,
   sf |-> st, sv |-> st, sp |-> st, l1 |-> st, l2 |-> st, l3 |-> st, sw |-> st]

AllOk == Outcomes(TRUE, TRUE, TRUE, TRUE, TRUE)

\* --------------------------------------------------------- profile builder
EmptyMap == [t \in {} |-> 0]

\* Math.pow(0.95, days), in ten-thousandths.
Pow95(days) ==
  CASE days = 0 -> 10000
    [] days = 1 -> 9500
    [] days = 7 -> 6983
    [] days = 30 -> 2146
    [] OTHER -> 0

\* weight * Math.pow(decayFactor, daysSinceUpdate), with `weight || 1`.
DecayedWeight(w, days) ==
  ((IF w = 0 THEN 1000 ELSE w) * Pow95(days)) \div 10000

getUserInterests(c, u, F) ==
  IF ~F.cgI THEN [thrown |-> TRUE, val |-> EmptyMap, cache |-> c]
  ELSE IF IsHit(c, InterestsKey(u))
    THEN [thrown |-> FALSE, val |-> c[InterestsKey(u)].val, cache |-> c]
  ELSE IF ~F.gi THEN [thrown |-> FALSE, val |-> EmptyMap, cache |-> c]
  ELSE LET rows == gInterests[u]
           interests == [t \in DOMAIN rows |->
                           DecayedWeight(rows[t].w, rows[t].days)]
       IN IF ~F.csI THEN [thrown |-> FALSE, val |-> EmptyMap, cache |-> c]
          ELSE [thrown |-> FALSE, val |-> interests,
                cache |-> CacheSet(c, InterestsKey(u), interests, CACHE_TTL * 2, u)]

getFollowingUsers(c, u, F) ==
  IF ~F.cgF THEN [thrown |-> TRUE, val |-> {}, cache |-> c]
  ELSE IF IsHit(c, FollowingKey(u))
    THEN [thrown |-> FALSE, val |-> c[FollowingKey(u)].val, cache |-> c]
  ELSE IF ~F.sf THEN [thrown |-> FALSE, val |-> {}, cache |-> c]
  ELSE IF ~F.csF THEN [thrown |-> FALSE, val |-> {}, cache |-> c]
  ELSE [thrown |-> FALSE, val |-> following[u],
        cache |-> CacheSet(c, FollowingKey(u), following[u], CACHE_TTL * 4, u)]

getUserViewedPosts(u, F) == IF ~F.sv THEN {} ELSE ViewedOf(u)

\* interactions.set(postId, (interactions.get(postId) || 0) + weight) over the
\* rows, with `weight || 1`.
RECURSIVE SumRows(_, _)
SumRows(rows, p) ==
  IF rows = <<>> THEN 0
  ELSE (IF rows[1].postId = p THEN (IF rows[1].weight = 0 THEN 1 ELSE rows[1].weight)
        ELSE 0) + SumRows(Tail(rows), p)

getRecentInteractions(u, F) ==
  IF ~F.gx THEN EmptyMap
  ELSE LET rows == gInteract[u]
       IN [p \in {rows[i].postId : i \in 1..Len(rows)} |-> SumRows(rows, p)]

\* The build with fetches that reject instead of returning their default.
buildUserProfileRejecting(c, u, F) ==
  LET i == getUserInterests(c, u, F)
      f == getFollowingUsers(i.cache, u, F)
  IN [thrown |-> i.thrown \/ f.thrown \/ ~F.gi \/ ~F.sf \/ ~F.sv \/ ~F.gx,
      val |-> [interests |-> i.val, following |-> f.val,
               viewedPosts |-> getUserViewedPosts(u, F),
               recentInteractions |-> getRecentInteractions(u, F)],
      cache |-> f.cache]

\* Promise.all of the four fetches: it rejects when one of them rejects; the
\* others still run, so their cache writes happen either way.
buildUserProfile(c, u, F) ==
  LET i == getUserInterests(c, u, F)
      f == getFollowingUsers(i.cache, u, F)
  IN [thrown |-> i.thrown \/ f.thrown,
      val |-> [interests |-> i.val, following |-> f.val,
               viewedPosts |-> getUserViewedPosts(u, F),
               recentInteractions |-> getRecentInteractions(u, F)],
      cache |-> f.cache]

\* ------------------------------------------------------ candidate retriever
getCandidatePosts(u, p, F) ==
  IF ~F.sp THEN <<>>
  ELSE StoreFind(
         {x \in PostIds :
            /\ x \notin archived
            /\ posts[x].author # u
            /\ x \notin p.viewedPosts
            /\ posts[x].author \notin p.following
            /\ \/ posts[x].kw \cap DOMAIN p.interests # {}
               \/ posts[x].age <= 72 /\ posts[x].likes >= 5},
         MAX_POSTS_TO_SCORE)

\* ------------------------------------------------------------------ scorer
\* Math.exp(-ageInHours / 24) * 10, in thousandths, for the ages of AgeVals.
TimeScore(age) ==
  CASE age = 1 -> 9592
    [] age = 100 -> 155
    [] OTHER -> 0

\* Math.log(1 + n), in thousandths.
Log1p(n) ==
  CASE n = 0 -> 0
    [] n = 1 -> 693
    [] n = 2 -> 1099
    [] n = 3 -> 1386
    [] n = 4 -> 1609
    [] n = 5 -> 1792
    [] n = 6 -> 1946
    [] OTHER -> 2079

RECURSIVE SumMap(_, _)
SumMap(f, S) ==
  IF S = {} THEN 0
  ELSE LET x == CHOOSE y \in S : TRUE IN f[x] + SumMap(f, S \ {x})

\* What a division by a zero total yields in the program: Infinity.
Infinity == 10 ^ 9

InterestTerm(w, total) ==
  IF total = 0 THEN Infinity ELSE (w * 15000) \div total

InterestScore(x, p) ==
  IF posts[x].kw = {} THEN 0
  ELSE LET totalInterestWeights == SumMap(p.interests, DOMAIN p.interests)
           hit == {t \in posts[x].kw \cap DOMAIN p.interests : p.interests[t] > 0}
       IN SumMap([t \in hit |-> InterestTerm(p.interests[t], totalInterestWeights)], hit)

\* The engagement term with the comments counted against the post.
EngagementScoreInverted(likes, comments) == Log1p(likes) * 2 - Log1p(comments) * 3

EngagementScore(likes, comments) == Log1p(likes) * 2 + Log1p(comments) * 3

Score(x, p) ==
  TimeScore(posts[x].age)
  + InterestScore(x, p)
  + (IF posts[x].author \in p.following THEN 8000 ELSE 0)
  + EngagementScore(posts[x].likes, posts[x].comments)
  + (IF posts[x].quality THEN 2000 ELSE 0)
  + (IF posts[x].tribe # NoTribe THEN 1000 ELSE 0)
  + (IF x \in DOMAIN p.recentInteractions THEN p.recentInteractions[x] * 2000 ELSE 0)

\* PostScore without its reasons (diagnostic only): [v: post id, k: score].
scorePostsAdvanced(cands, p) ==
  [i \in 1..Len(cands) |-> [v |-> cands[i], k |-> Score(cands[i], p)]]

\* -------------------------------------------------------- diversity filter
\* The walk with penalties held back until more than 2 authors and more than
\* 3 tribes have been seen.
RECURSIVE DiversityWalkWithThresholds(_, _, _, _, _)
DiversityWalkWithThresholds(sorted, limit, diversified, seenAuthors, seenTribes) ==
  IF sorted = <<>> \/ Len(diversified) >= limit THEN diversified
  ELSE LET sp == sorted[1]
           authorId == posts[sp.v].author
           tribeId == posts[sp.v].tribe
           s1 == IF authorId \in seenAuthors /\ Cardinality(seenAuthors) > 2
                 THEN (sp.k * 7) \div 10 ELSE sp.k
           s2 == IF tribeId # NoTribe /\ tribeId \in seenTribes
                    /\ Cardinality(seenTribes) > 3
                 THEN (s1 * 8) \div 10 ELSE s1
       IN DiversityWalkWithThresholds(Tail(sorted), limit,
                        Append(diversified, [v |-> sp.v, k |-> s2]),
                        seenAuthors \cup {authorId},
                        IF tribeId # NoTribe THEN seenTribes \cup {tribeId}
                        ELSE seenTribes)

RECURSIVE DiversityWalk(_, _, _, _, _)
DiversityWalk(sorted, limit, diversified, seenAuthors, seenTribes) ==
  IF sorted = <<>> \/ Len(diversified) >= limit THEN diversified
  ELSE LET sp == sorted[1]
           authorId == posts[sp.v].author
           tribeId == posts[sp.v].tribe
           s1 == IF authorId \in seenAuthors THEN (sp.k * 7) \div 10 ELSE sp.k
           s2 == IF tribeId # NoTribe /\ tribeId \in seenTribes
                 THEN (s1 * 8) \div 10 ELSE s1
       IN DiversityWalk(Tail(sorted), limit,
                        Append(diversified, [v |-> sp.v, k |-> s2]),
                        seenAuthors \cup {authorId},
                        IF tribeId # NoTribe THEN seenTribes \cup {tribeId}
                        ELSE seenTribes)

\* The walk without the break at diversified.length >= limit.
applyDiversityFiltersUnbounded(scoredPosts, limit) ==
  SortDesc(DiversityWalk(SortDesc(scoredPosts), Len(scoredPosts), <<>>, {}, {}))

applyDiversityFilters(scoredPosts, limit) ==
  SortDesc(DiversityWalk(SortDesc(scoredPosts), limit, <<>>, {}, {}))

\* diversifiedPosts.slice(0, limit).map(item => item.post)
PrimaryResult(cands, p, limit) ==
  LET d == Take(applyDiversityFilters(scorePostsAdvanced(cands, p), limit), limit)
  IN [i \in 1..Len(d) |-> d[i].v]

\* -------------------------------------------------------- fallback cascade
Engagement(x) == posts[x].likes + posts[x].comments * 2

FallbackEligible(u, excluded) ==
  {x \in PostIds : x \notin archived /\ posts[x].author # u /\ x \notin excluded}

getFallbackLevel1(limit, u, excluded, F) ==
  IF ~F.l1 THEN <<>>
  ELSE LET found == StoreFind({x \in FallbackEligible(u, excluded) : posts[x].age <= 168},
                              limit * 3)
           sorted == SortDesc([i \in 1..Len(found) |->
                                 [v |-> found[i], k |-> Engagement(found[i])]])
       IN Take([i \in 1..Len(sorted) |-> sorted[i].v], limit * 2)

getFallbackLevel2(limit, u, excluded, F) ==
  IF ~F.l2 THEN <<>>
  ELSE StoreFind({x \in FallbackEligible(u, excluded) :
                    posts[x].age <= 720 /\ posts[x].age > 168},
                 limit * 2)

\* Level 3 with the 30-day window of level 2 left in its filter.
getFallbackLevel3Windowed(limit, u, excluded, F) ==
  IF ~F.l3 THEN <<>>
  ELSE StoreFind({x \in FallbackEligible(u, excluded) : posts[x].age <= 720}, limit)

getFallbackLevel3(limit, u, excluded, F) ==
  IF ~F.l3 THEN <<>>
  ELSE StoreFind(FallbackEligible(u, excluded), limit)

RECURSIVE BasicWalk(_, _, _, _)
BasicWalk(list, limit, result, seenAuthors) ==
  IF list = <<>> \/ Len(result) >= limit THEN result
  ELSE LET authorId == posts[list[1]].author
       IN IF authorId \notin seenAuthors \/ Cardinality(seenAuthors) < 3
          THEN BasicWalk(Tail(list), limit, Append(result, list[1]),
                         seenAuthors \cup {authorId})
          ELSE BasicWalk(Tail(list), limit, result, seenAuthors)

basicDiversityFilter(list, limit) == BasicWalk(list, limit, <<>>, {})

\* if (posts.length < limit) posts = [...posts, ...level 2 for the deficit],
\* with the spread written the other way round.
appendLevel2Reversed(list, limit, u, excluded, F) ==
  IF Len(list) < limit
  THEN getFallbackLevel2(limit - Len(list), u, excluded, F) \o list ELSE list

\* if (posts.length < limit) posts = [...posts, ...level 2 for the deficit]
appendLevel2(list, limit, u, excluded, F) ==
  IF Len(list) < limit
  THEN list \o getFallbackLevel2(limit - Len(list), u, excluded, F) ELSE list

\* if (posts.length < limit) posts = [...posts, ...level 3 for the deficit]
appendLevel3(list, limit, u, excluded, F) ==
  IF Len(list) < limit
  THEN list \o getFallbackLevel3(limit - Len(list), u, excluded, F) ELSE list

\* The three tiers of getFallbackPosts, each asked for the remaining deficit.
FallbackTiers(limit, u, excluded, F) ==
  appendLevel3(appendLevel2(getFallbackLevel1(limit, u, excluded, F),
                            limit, u, excluded, F),
               limit, u, excluded, F)

\* The end of getFallbackPosts with a rejected level query propagating to the
\* catch block, and that block rethrowing.
FallbackOutcomeRethrowing(pr, diversified, limit, u, F) ==
  IF pr.thrown \/ ~F.cSet \/ ~F.l1
  THEN [thrown |-> TRUE, val |-> <<>>, cache |-> pr.cache,
        hit |-> FALSE, by |-> <<u, limit>>]
  ELSE [thrown |-> FALSE, val |-> diversified,
        cache |-> CacheSet(pr.cache, FallbackKey(limit), diversified,
                           CACHE_TTL, <<u, limit>>),
        hit |-> FALSE, by |-> <<u, limit>>]

\* The end of getFallbackPosts: the write of the diversified list and its
\* return, or the catch block's empty list when the profile build or the
\* write rejected.
FallbackOutcome(pr, diversified, limit, u, F) ==
  IF pr.thrown \/ ~F.cSet
  THEN [thrown |-> FALSE, val |-> <<>>, cache |-> pr.cache,
        hit |-> FALSE, by |-> <<u, limit>>]
  ELSE [thrown |-> FALSE, val |-> diversified,
        cache |-> CacheSet(pr.cache, FallbackKey(limit), diversified,
                           CACHE_TTL, <<u, limit>>),
        hit |-> FALSE, by |-> <<u, limit>>]

\* The try block of getFallbackPosts on the profile pr.
FallbackMiss(pr, limit, u, F) ==
  FallbackOutcome(pr,
                  basicDiversityFilter(FallbackTiers(limit, u, pr.val.viewedPosts, F),
                                       limit),
                  limit, u, F)

\* hit: the value came from the fallback_posts entry; by: whom that entry was
\* computed for (history only).
getFallbackPosts(c, limit, u, F) ==
  IF ~F.cGet
    THEN [thrown |-> TRUE, val |-> <<>>, cache |-> c, hit |-> FALSE, by |-> <<u, limit>>]
  ELSE IF IsHit(c, FallbackKey(limit))
    THEN [thrown |-> FALSE, val |-> c[FallbackKey(limit)].val, cache |-> c,
          hit |-> TRUE, by |-> c[FallbackKey(limit)].by]
  ELSE FallbackMiss(buildUserProfile(c, u, F), limit, u, F)

\* ------------------------------------------------------ getRecommendedPosts
Slots == {1, 2}
\* src of a list that no cache entry supplied, and lastRet of a key without
\* a returned list.
Fresh == <<"fresh", 0>>
NoRet == <<0>>

\* The outcomes of the awaited calls of a step taken now.
Now == Outcomes("cache" \notin down, "cache" \notin down, "cache" \notin down,
                "store" \notin down, "graph" \notin down)

\* History of a call's document-store calls: "none" before the first, "ok"
\* while every one resolved, "err" while every one rejected, "mixed" otherwise.
\* oks: the outcomes of the calls a step made.
StoreStat(prev, oks) ==
  IF oks = {} THEN prev
  ELSE LET cur == IF oks = {TRUE} THEN "ok" ELSE IF oks = {FALSE} THEN "err" ELSE "mixed"
       IN IF prev = "none" \/ prev = cur THEN cur ELSE "mixed"

\* The awaited calls buildUserProfile makes and their outcomes under F.
ProfileTrace(c, u, F) ==
  LET missI == F.cgI /\ ~IsHit(c, InterestsKey(u))
      missF == F.cgF /\ ~IsHit(c, FollowingKey(u))
  IN [cerr |-> ~F.cgI \/ ~F.cgF \/ (missI /\ F.gi /\ ~F.csI) \/ (missF /\ F.sf /\ ~F.csF),
      gerr |-> (missI /\ ~F.gi) \/ ~F.gx,
      store |-> {F.sv} \cup (IF missF THEN {F.sf} ELSE {})]

\* The awaited calls getFallbackPosts makes and their outcomes under F.
FallbackTrace(c, limit, u, F) ==
  IF ~F.cGet THEN [cerr |-> TRUE, gerr |-> FALSE, store |-> {}]
  ELSE IF IsHit(c, FallbackKey(limit)) THEN [cerr |-> FALSE, gerr |-> FALSE, store |-> {}]
  ELSE LET t == ProfileTrace(c, u, F)
       IN IF ~F.cgI \/ ~F.cgF THEN t
          ELSE [cerr |-> t.cerr \/ ~F.cSet, gerr |-> t.gerr,
                store |-> t.store \cup {F.l1}]

\* The history fields of request r after a step with trace t.
Traced(r, t) ==
  [r EXCEPT !.cerr = @ \/ t.cerr, !.gerr = @ \/ t.gerr,
            !.sstat = StoreStat(@, t.store)]

IdleReq ==
  [pc |-> "idle", user |-> "u1", limit |-> 1, profile |-> None,
   recs |-> <<>>, result |-> <<>>, out |-> "none", path |-> "none", src |-> Fresh,
   seen0 |-> {}, nElig0 |-> 0, cerr |-> FALSE, gerr |-> FALSE, sstat |-> "none",
   cfault |-> "none", mfail |-> FALSE, computed |-> <<>>, idx |-> 0, matched |-> "none",
   wrote |-> NoRet]

AllIdle == \A s \in Slots : req[s].pc = "idle"

StoreVars == <<posts, archived, following, gInterests, gInteract, gFollows>>

\* The call and its first await: cacheManager.get(cacheKey) inside the try.
Start(s, u, l) ==
  /\ req[s].pc = "idle"
  /\ calls < MaxCalls
  /\ calls' = calls + 1
  /\ LET r0 == [IdleReq EXCEPT !.user = u, !.limit = l,
                               !.seen0 = ViewedOf(u),
                               !.nElig0 = Cardinality(FallbackEligible(u, ViewedOf(u))),
                               !.cerr = ~Now.cGet]
     IN req' = [req EXCEPT ![s] =
          IF ~Now.cGet THEN [r0 EXCEPT !.pc = "catch"]
          ELSE IF IsHit(cache, RecKey(u, l))
            THEN [r0 EXCEPT !.pc = "done", !.out = "ok", !.path = "hit",
                            !.result = cache[RecKey(u, l)].val,
                            !.src = cache[RecKey(u, l)].by]
          ELSE [r0 EXCEPT !.pc = "profile"]]
  /\ UNCHANGED <<StoreVars, views, cache, down, faults, changes, lastRet, prof, urec, viewDocs, divr, scored, shuf>>

\* await this.buildUserProfile(userId)
\* The four fetches joined by the Promise.all of buildUserProfile.  A fetch
\* whose query never completes leaves its promise pending; the names of such
\* fetches are kept in down.
Signals == {"interests", "following", "viewedPosts", "recentInteractions"}

\* Promise.all resolves only when each of its promises has resolved, and
\* nothing races them against a timer.
ProfileJoins == down \cap Signals = {}

\* getFallbackPosts builds the profile when fallback_posts:{limit} misses.
FallbackJoins(limit) ==
  ProfileJoins \/ ~Now.cGet \/ IsHit(cache, FallbackKey(limit))

Profile(s) ==
  /\ req[s].pc = "profile"
  /\ ProfileJoins
  /\ LET r == req[s]
         pr == buildUserProfile(cache, r.user, Now)
         r1 == Traced(r, ProfileTrace(cache, r.user, Now))
     IN /\ cache' = pr.cache
        /\ req' = [req EXCEPT ![s] =
             IF pr.thrown THEN [r1 EXCEPT !.pc = "catch"]
             ELSE [r1 EXCEPT !.pc = "cands", !.profile = pr.val]]
  /\ UNCHANGED <<StoreVars, views, down, calls, faults, changes, lastRet, prof, urec, viewDocs, divr, scored, shuf>>

\* await this.getCandidatePosts(userId, userProfile), then the branch on an
\* empty pool; scoring and the diversity filter have no suspension point.
Cands(s) ==
  /\ req[s].pc = "cands"
  /\ LET r == req[s]
         candidatePosts == getCandidatePosts(r.user, r.profile, Now)
         r1 == [r EXCEPT !.sstat = StoreStat(@, {Now.sp}), !.profile = None,
                         !.cfault = IF Now.sp THEN @ ELSE "store"]
     IN req' = [req EXCEPT ![s] =
          IF candidatePosts = <<>> THEN [r1 EXCEPT !.pc = "fallback"]
          ELSE [r1 EXCEPT !.pc = "set", !.path = "primary",
                          !.recs = PrimaryResult(candidatePosts, r.profile, r.limit)]]
  /\ UNCHANGED <<StoreVars, views, cache, down, calls, faults, changes, lastRet, prof, urec, viewDocs, divr, scored, shuf>>

\* The request r after getFallbackPosts answered fb: the list goes on to the
\* cache write at pc `next` on path `path`; a rejection goes to pc `failed`.
AfterFallback(r, fb, next, path, failed) ==
  IF fb.thrown
  THEN IF failed = "done" THEN [r EXCEPT !.pc = "done", !.out = "error"]
       ELSE [r EXCEPT !.pc = failed]
  ELSE [r EXCEPT !.pc = next, !.path = path, !.recs = fb.val,
                 !.src = IF fb.hit THEN fb.by ELSE Fresh]

\* The cache and the request in slot s after getFallbackPosts answered fb.
FallbackAnswered(s, r1, fb, next, path, failed) ==
  /\ cache' = fb.cache
  /\ req' = [req EXCEPT ![s] = AfterFallback(r1, fb, next, path, failed)]

\* scorePostsAdvanced or applyDiversityFilters raises on a non-empty candidate
\* list (a candidate document without createdAt, an author that did not
\* populate): control passes to the catch block.
CandsThrow(s) ==
  /\ req[s].pc = "cands"
  /\ getCandidatePosts(req[s].user, req[s].profile, Now) # <<>>
  /\ req' = [req EXCEPT ![s] =
       [req[s] EXCEPT !.pc = "catch", !.cfault = "throw", !.profile = None,
                      !.sstat = StoreStat(@, {TRUE})]]
  /\ UNCHANGED <<StoreVars, views, cache, down, calls, faults, changes, lastRet, prof, urec, viewDocs, divr, scored, shuf>>

\* recommendations = await this.getFallbackPosts(limit, userId) in the try.
Fallback(s) ==
  /\ req[s].pc = "fallback"
  /\ FallbackJoins(req[s].limit)
  /\ FallbackAnswered(s,
        Traced(req[s], FallbackTrace(cache, req[s].limit, req[s].user, Now)),
        getFallbackPosts(cache, req[s].limit, req[s].user, Now),
        "set", "fallback", "catch")
  /\ UNCHANGED <<StoreVars, views, down, calls, faults, changes, lastRet, prof, urec, viewDocs, divr, scored, shuf>>

\* The step without the write: the list is returned but never cached.
SetSkipped(s) ==
  /\ req[s].pc = "set"
  /\ req' = [req EXCEPT ![s] = [req[s] EXCEPT !.pc = "mark"]]
  /\ UNCHANGED <<StoreVars, views, cache, down, calls, faults, changes, lastRet, prof, urec, viewDocs, divr, scored, shuf>>

\* await this.cacheManager.set(cacheKey, recommendations, this.CACHE_TTL)
Set(s) ==
  /\ req[s].pc = "set"
  /\ LET r == req[s]
         key == RecKey(r.user, r.limit)
     IN IF Now.cSet
        THEN /\ cache' = CacheSet(cache, key, r.recs, CACHE_TTL, <<r.user, r.limit>>)
             /\ req' = [req EXCEPT ![s] = [r EXCEPT !.pc = "mark", !.wrote = r.recs]]
        ELSE /\ req' = [req EXCEPT ![s] = [r EXCEPT !.pc = "catch", !.cerr = TRUE]]
             /\ UNCHANGED cache
  /\ UNCHANGED <<StoreVars, views, down, calls, faults, changes, lastRet, prof, urec, viewDocs, divr, scored, shuf>>

\* markPostsAsViewed: one ordered bulkWrite of upserts, none when the list is
\* empty.  When it rejects after k upserts, those k are applied.
markPostsAsViewed(v, u, ids, k) == v \cup {<<u, ids[i]>> : i \in 1..k}

\* The documents after the first k upserts of a bulkWrite that runs alone: a
\* pair without a document gets one ($setOnInsert), a pair with documents is
\* matched and left as it is.
upsertDocs(d, u, ids, k) ==
  [pr \in DOMAIN d |->
     IF d[pr] = 0 /\ \E i \in 1..k : pr = <<u, ids[i]>> THEN 1 ELSE d[pr]]

Mark(s) ==
  /\ req[s].pc = "mark"
  /\ LET r == req[s]
     IN IF r.recs = <<>> \/ Now.sw
        THEN /\ views' = markPostsAsViewed(views, r.user, r.recs, Len(r.recs))
             /\ viewDocs' = upsertDocs(viewDocs, r.user, r.recs, Len(r.recs))
             /\ req' = [req EXCEPT ![s] =
                  [r EXCEPT !.pc = "done", !.out = "ok", !.result = r.recs,
                            !.sstat = IF r.recs = <<>> THEN @ ELSE StoreStat(@, {TRUE})]]
        ELSE \E k \in 0..(Len(r.recs) - 1) :
             /\ views' = markPostsAsViewed(views, r.user, r.recs, k)
             /\ viewDocs' = upsertDocs(viewDocs, r.user, r.recs, k)
             /\ req' = [req EXCEPT ![s] =
                  [r EXCEPT !.pc = "catch", !.sstat = StoreStat(@, {FALSE}),
                            !.mfail = TRUE, !.computed = r.recs]]
  /\ UNCHANGED <<StoreVars, cache, down, calls, faults, changes, lastRet, prof, urec, divr, scored, shuf>>

\* The catch block rethrowing instead of falling back.
CatchRethrowing(s) ==
  /\ req[s].pc = "catch"
  /\ req' = [req EXCEPT ![s] = [req[s] EXCEPT !.pc = "done", !.out = "error"]]
  /\ UNCHANGED <<StoreVars, views, cache, down, calls, faults, changes, lastRet, prof, urec, viewDocs, divr, scored, shuf>>

\* catch (error): const fallbackPosts = await this.getFallbackPosts(limit, userId)
Catch(s) ==
  /\ req[s].pc = "catch"
  /\ FallbackJoins(req[s].limit)
  /\ FallbackAnswered(s,
        Traced(req[s], FallbackTrace(cache, req[s].limit, req[s].user, Now)),
        getFallbackPosts(cache, req[s].limit, req[s].user, Now),
        "catchset", "catch", "done")
  /\ UNCHANGED <<StoreVars, views, down, calls, faults, changes, lastRet, prof, urec, viewDocs, divr, scored, shuf>>

\* catch (error): await this.cacheManager.set(cacheKey, fallbackPosts, CACHE_TTL / 2)
CatchSet(s) ==
  /\ req[s].pc = "catchset"
  /\ LET r == req[s]
         key == RecKey(r.user, r.limit)
     IN IF Now.cSet
        THEN /\ cache' = CacheSet(cache, key, r.recs, CACHE_TTL \div 2, <<r.user, r.limit>>)
             /\ req' = [req EXCEPT ![s] =
                  [r EXCEPT !.pc = "done", !.out = "ok", !.result = r.recs,
                            !.wrote = r.recs]]
        ELSE /\ req' = [req EXCEPT ![s] =
                  [r EXCEPT !.pc = "done", !.out = "error", !.cerr = TRUE]]
             /\ UNCHANGED cache
  /\ UNCHANGED <<StoreVars, views, down, calls, faults, changes, lastRet, prof, urec, viewDocs, divr, scored, shuf>>

\* The caller takes the answer.
Finish(s) ==
  /\ req[s].pc = "done"
  /\ LET r == req[s]
     IN lastRet' = IF r.out = "ok"
                   THEN [lastRet EXCEPT ![RecKey(r.user, r.limit)] = r.result]
                   ELSE lastRet
  /\ req' = [req EXCEPT ![s] = IdleReq]
  /\ UNCHANGED <<StoreVars, views, cache, down, calls, faults, changes, prof, urec, viewDocs, divr, scored, shuf>>

\* ------------------------------------------- concurrent markPostsAsViewed
\* The bulkWrite of markPostsAsViewed as the store executes it when requests
\* run concurrently: the operations of one bulkWrite in order, each an
\* updateOne with upsert that first evaluates its filter {userId, postId} and
\* then, when no document matched, inserts one.  PostViewSchema declares no
\* unique index on (userId, postId), so the store does not serialize the two
\* halves of upserts of different requests.

\* The request in slot s reaches markPostsAsViewed(u, ids) with a non-empty
\* list (the steps before it are those of getRecommendedPosts).
markBegin(s, u, ids) ==
  /\ req[s].pc = "idle"
  /\ calls < MaxCalls
  /\ calls' = calls + 1
  /\ req' = [req EXCEPT ![s] = [IdleReq EXCEPT !.pc = "upsert", !.user = u,
                                                !.limit = Len(ids), !.recs = ids]]
  /\ UNCHANGED <<StoreVars, views, viewDocs, cache, down, faults, changes, lastRet,
                 prof, urec, divr, scored, shuf>>

\* The filter of the next operation is evaluated.
upsertMatch(s) ==
  /\ req[s].pc = "upsert" /\ req[s].matched = "none"
  /\ LET r == req[s]
         pr == <<r.user, r.recs[r.idx + 1]>>
     IN req' = [req EXCEPT ![s] =
          [r EXCEPT !.matched = IF viewDocs[pr] > 0 THEN "hit" ELSE "miss"]]
  /\ UNCHANGED <<StoreVars, views, viewDocs, cache, down, calls, faults, changes,
                 lastRet, prof, urec, divr, scored, shuf>>

\* The operation is applied: an insert when the filter matched nothing,
\* nothing otherwise ($setOnInsert); after the last operation the bulkWrite
\* resolves and markPostsAsViewed returns.
upsertWrite(s) ==
  /\ req[s].pc = "upsert" /\ req[s].matched # "none"
  /\ LET r == req[s]
         pr == <<r.user, r.recs[r.idx + 1]>>
     IN /\ viewDocs' = IF r.matched = "miss"
                       THEN [viewDocs EXCEPT ![pr] = @ + 1] ELSE viewDocs
        /\ views' = IF r.matched = "miss" THEN views \cup {pr} ELSE views
        /\ req' = [req EXCEPT ![s] =
             IF r.idx + 1 = Len(r.recs) THEN IdleReq
             ELSE [r EXCEPT !.idx = @ + 1, !.matched = "none"]]
  /\ UNCHANGED <<StoreVars, cache, down, calls, faults, changes, lastRet, prof, urec,
                 divr, scored, shuf>>

\* ------------------------------------------------------ getRecommendedUsers
\* The users: the User nodes of the graph, one per user document.
UserIds == DOMAIN gInterests

\* The orders a query without a total ORDER BY, a find without sort, or the
\* weighted shuffle can produce: the sequences listing every user once (the
\* requester first: no list these orders are applied to holds the requester).
Orders == {o \in [1..Cardinality(UserIds) -> UserIds] :
             Range(o) = UserIds /\ o[1] = "u1"}

\* The members of S in the order o lists them.
InOrder(S, o) ==
  LET idx == SeqOfSet({i \in 1..Len(o) : o[i] \in S})
  IN [i \in 1..Len(idx) |-> o[idx[i]]]

Follows(a, b) == <<a, b>> \in gFollows

\* First query: users followed by someone the requester follows.
CommonFollowers(u, r) == {f \in UserIds : Follows(f, r) /\ Follows(u, f)}

\* Second query: users followed by someone sharing a tag with the requester.
SimilarUsers(u, r) ==
  {x \in UserIds \ {u} :
     DOMAIN gInterests[u] \cap DOMAIN gInterests[x] # {} /\ Follows(x, r)}

\* ORDER BY count DESC LIMIT n over the rows of S, ties in the order o.
Ranked(S, count, n, o) ==
  LET rows == InOrder(S, o)
      keyed == SortDesc([i \in 1..Len(rows) |->
                  [v |-> [id |-> rows[i], commonFollowers |-> count[rows[i]]],
                   k |-> count[rows[i]]]])
  IN Take([i \in 1..Len(keyed) |-> keyed[i].v], n)

\* Any order of the list: every weight is positive, so the weighted draw can
\* pick the elements in any order.
shuffleWithRelevance(users, sh) ==
  LET o == InOrder({users[i].id : i \in 1..Len(users)}, sh)
  IN [i \in 1..Len(o) |-> CHOOSE x \in Range(users) : x.id = o[i]]

\* First query: at most floor(limit * 1.5) users with common followers.
Tier1(u, limit, o) ==
  Ranked({r \in UserIds \ {u} : ~Follows(u, r) /\ CommonFollowers(u, r) # {}},
         [r \in UserIds |-> Cardinality(CommonFollowers(u, r))],
         (limit * 3) \div 2, o)

\* Second query, run when t1 is shorter than limit: users followed by users
\* with similar interests, without those of t1, up to the deficit.
Tier2(u, limit, o, t1) ==
  IF Len(t1) < limit
  THEN Ranked({r \in UserIds \ {u} :
                 /\ ~Follows(u, r)
                 /\ r \notin {t1[i].id : i \in 1..Len(t1)}
                 /\ SimilarUsers(u, r) # {}},
              [r \in UserIds |-> Cardinality(SimilarUsers(u, r))],
              limit - Len(t1), o)
  ELSE <<>>

\* Third step, run when t12 (the users of both queries) is still shorter than
\* limit: the followingIds query, then users of the user store that are not
\* the requester, not in t12 and not followed, up to the deficit.
Tier3(u, limit, o, t12) ==
  IF Len(t12) < limit
  THEN Ranked((UserIds \ {u}) \ ({t12[i].id : i \in 1..Len(t12)}
                                  \cup {f \in UserIds : Follows(u, f)}),
              [r \in UserIds |-> 0], limit - Len(t12), o)
  ELSE <<>>

\* The users of the first two queries.
Tiers12(u, limit, o, t1) == t1 \o Tier2(u, limit, o, t1)

\* With the third step.
Tiers123(u, limit, o, t12) == t12 \o Tier3(u, limit, o, t12)

\* The three tiers of the try block: ids with their counts.
UserTiers(u, limit, o) == Tiers123(u, limit, o, Tiers12(u, limit, o, Tier1(u, limit, o)))

\* The first graph query of the try block that rejects, 0 when all that run
\* resolve: g1 is the outcome of the first query, g2 of the second, g3 of the
\* followingIds query.
FailedQuery(u, limit, F, o) ==
  IF ~F.g1 THEN 1
  ELSE IF Len(Tier1(u, limit, o)) < limit /\ ~F.g2 THEN 2
  ELSE IF Len(Tiers12(u, limit, o, Tier1(u, limit, o))) < limit /\ ~F.g3 THEN 3
  ELSE 0

\* userModel.find({_id: {$in: ids}}) in the order o, then the sort by
\* commonFollowers.
SortedUsers(rows, o) ==
  LET found == InOrder({rows[i].id : i \in 1..Len(rows)}, o)
      sorted == SortDesc([i \in 1..Len(found) |->
                   LET x == CHOOSE y \in Range(rows) : y.id = found[i]
                   IN [v |-> x, k |-> x.commonFollowers]])
  IN [i \in 1..Len(sorted) |-> sorted[i].v]

\* The find of the catch block: every user but the requester.
FallbackUsers(u, limit, o) ==
  LET found == Take(InOrder(UserIds \ {u}, o), limit)
  IN [i \in 1..Len(found) |-> [id |-> found[i], commonFollowers |-> 0]]

\* Outcomes of the awaited calls of one getRecommendedUsers call: c the cache
\* calls, g1, g2, g3 the graph queries, st the finds of the try block, sfb the
\* find of the catch block.
TierFlags == [c : BOOLEAN, g1 : BOOLEAN, g2 : BOOLEAN, g3 : BOOLEAN, st : BOOLEAN,
              sfb : BOOLEAN]

\* The outcomes when the graph as a whole is reachable or not.
UserFlags == {F \in TierFlags : F.g1 = F.g2 /\ F.g2 = F.g3}

getRecommendedUsers(c, u, limit, F, o, sh) ==
  IF F.c /\ IsHit(c, UserRecKey(u, limit))
    THEN [thrown |-> FALSE, val |-> c[UserRecKey(u, limit)].val, cache |-> c,
          path |-> "hit", gfail |-> 0]
  ELSE IF F.c /\ FailedQuery(u, limit, F, o) = 0 /\ F.st
    THEN LET shuffledUsers ==
               shuffleWithRelevance(SortedUsers(UserTiers(u, limit, o), o), sh)
         IN [thrown |-> FALSE, val |-> shuffledUsers,
             cache |-> CacheSet(c, UserRecKey(u, limit), shuffledUsers, CACHE_TTL,
                                <<u, limit>>),
             path |-> "tiers", gfail |-> 0]
  ELSE IF F.sfb
    THEN [thrown |-> FALSE, val |-> shuffleWithRelevance(FallbackUsers(u, limit, o), sh),
          cache |-> c, path |-> "catch",
          gfail |-> IF F.c THEN FailedQuery(u, limit, F, o) ELSE 0]
  ELSE [thrown |-> TRUE, val |-> <<>>, cache |-> c, path |-> "catch",
        gfail |-> IF F.c THEN FailedQuery(u, limit, F, o) ELSE 0]

RecommendUsers(u, limit, F, o, sh) ==
  /\ calls < MaxCalls
  /\ calls' = calls + 1
  /\ LET r == getRecommendedUsers(cache, u, limit, F, o, sh)
     IN /\ cache' = r.cache
        /\ urec' = [user |-> u, limit |-> limit, thrown |-> r.thrown, result |-> r.val,
                    path |-> r.path, following |-> following[u], gfail |-> r.gfail]
  /\ UNCHANGED <<StoreVars, views, req, down, faults, changes, lastRet, prof, viewDocs, divr, scored, shuf>>

\* UsersService.followUser: the two documents are saved; the graph write is
\* started without being awaited, so its failure (gok = FALSE) goes unseen.
followUser(u, v, gok) ==
  /\ u # v
  /\ changes < MaxChanges
  /\ changes' = changes + 1
  /\ following' = [following EXCEPT ![u] = @ \cup {v}]
  /\ gFollows' = IF gok THEN gFollows \cup {<<u, v>>} ELSE gFollows
  /\ UNCHANGED <<posts, archived, views, gInterests, gInteract, cache, req, down,
                 calls, faults, lastRet, prof, urec, viewDocs, divr, scored, shuf>>

\* UsersService.unfollowUser: the two documents are saved; the graph keeps
\* its FOLLOWS relationship.
unfollowUser(u, v) ==
  /\ v \in following[u]
  /\ changes < MaxChanges
  /\ changes' = changes + 1
  /\ following' = [following EXCEPT ![u] = @ \ {v}]
  /\ UNCHANGED <<posts, archived, views, gInterests, gInteract, gFollows, cache, req,
                 down, calls, faults, lastRet, prof, urec, viewDocs, divr, scored, shuf>>

\* ------------------------------------------------------------ environment
\* PostService.archiveUserPosts: updateMany sets the archived flag of every
\* post of a user in a tribe.
archiveUserPosts(a, t) ==
  /\ AllIdle
  /\ \E x \in PostIds : x \notin archived /\ posts[x].author = a /\ posts[x].tribe = t
  /\ changes < MaxChanges
  /\ changes' = changes + 1
  /\ archived' = archived \cup {x \in PostIds : posts[x].author = a /\ posts[x].tribe = t}
  /\ UNCHANGED <<posts, views, following, gInterests, gInteract, gFollows,
                 cache, req, down, calls, faults, lastRet, prof, urec, viewDocs, divr, scored, shuf>>

\* A view record leaves the 7-day window (TTL index `expires: 604800`).
ViewExpire(u, x) ==
  /\ AllIdle
  /\ <<u, x>> \in views
  /\ changes < MaxChanges
  /\ changes' = changes + 1
  /\ views' = views \ {<<u, x>>}
  /\ viewDocs' = [viewDocs EXCEPT ![<<u, x>>] = 0]
  /\ UNCHANGED <<StoreVars, cache, req, down, calls, faults, lastRet, prof, urec, divr, scored, shuf>>

\* A cache entry reaches its TTL.
CacheExpire(key) ==
  /\ AllIdle
  /\ IsHit(cache, key)
  /\ changes < MaxChanges
  /\ changes' = changes + 1
  /\ cache' = [cache EXCEPT ![key] = None]
  /\ lastRet' = [k \in DOMAIN lastRet |-> IF k = key THEN NoRet ELSE lastRet[k]]
  /\ UNCHANGED <<StoreVars, views, req, down, calls, faults, prof, urec, viewDocs, divr, scored, shuf>>

\* A backend starts rejecting calls, or answers again.
Outage(b) ==
  /\ b \notin down
  /\ faults < MaxFaults
  /\ down' = down \cup {b}
  /\ faults' = faults + 1
  /\ UNCHANGED <<StoreVars, views, cache, req, calls, changes, lastRet, prof, urec, viewDocs, divr, scored, shuf>>

\* The query of one signal fetch stops answering, for good.
Stall(sig) ==
  /\ sig \notin down
  /\ faults < MaxFaults
  /\ down' = down \cup {sig}
  /\ faults' = faults + 1
  /\ UNCHANGED <<StoreVars, views, cache, req, calls, changes, lastRet, prof, urec, viewDocs, divr, scored, shuf>>

Recover(b) ==
  /\ b \in down
  /\ down' = down \ {b}
  /\ UNCHANGED <<StoreVars, views, cache, req, calls, faults, changes, lastRet, prof, urec, viewDocs, divr, scored, shuf>>

\* ------------------------------------------------------------ specification
RecKeys == {RecKey(u, l) : u \in Users, l \in Limits}

Backends == {"cache", "store", "graph"}

PostDocs ==
  [author : Users, age : AgeVals \ {100}, likes : LikeVals, comments : {0},
   kw : {{}}, tribe : Tribes, quality : {FALSE}]

OldPost == [author |-> "u1", age |-> 1000, likes |-> 0, comments |-> 0,
            kw |-> {}, tribe |-> "tr1", quality |-> FALSE]

\* Post ids are numbered newest first and the newest post is u1's (the two
\* users are interchangeable); likes are drawn for the posts of the last week
\* only (no query reads them on older posts of users without interests); the
\* third post starts archived.
Stores == {f \in [1..3 -> PostDocs] :
             /\ \A i, j \in 1..3 : i < j => f[i].age <= f[j].age
             /\ \A i \in 1..3 : f[i].age > 168 => f[i].likes = 0
             /\ f[1].author = "u1"
             /\ f[3] = OldPost}

Init ==
  /\ posts \in Stores
  /\ archived = {3}
  /\ views = {}
  /\ following = [u \in Users |-> {}]
  /\ gInterests = [u \in Users |-> EmptyMap]
  /\ gInteract = [u \in Users |-> <<>>]
  /\ gFollows = {}
  /\ cache = [k \in CacheKeys |-> None]
  /\ req = [s \in Slots |-> IdleReq]
  /\ down = {}
  /\ calls = 0
  /\ faults = 0
  /\ changes = 0
  /\ lastRet = [k \in RecKeys |-> NoRet]
  /\ prof = None
  /\ urec = None
  /\ viewDocs = [pr \in Users \X DOMAIN posts |-> IF pr \in views THEN 1 ELSE 0]
  /\ divr = None
  /\ scored = None
  /\ shuf = None

Next ==
  \/ \E u \in Users, l \in Limits : Start(1, u, l)
  \/ Profile(1)
  \/ Cands(1)
  \/ Fallback(1)
  \/ Set(1)
  \/ Mark(1)
  \/ Catch(1)
  \/ CatchSet(1)
  \/ Finish(1)
  \/ \E a \in Authors, t \in Tribes : archiveUserPosts(a, t)
  \/ \E u \in Users, x \in PostIds : ViewExpire(u, x)
  \/ \E key \in CacheKeys : CacheExpire(key)
  \/ \E b \in Backends : Outage(b)
  \/ \E b \in Backends : Recover(b)

Spec == Init /\ [][Next]_vars

\* One call of a new user on an empty cache with every backend up, over
\* stores of four posts by three authors.
ColdStores == {f \in [1..4 -> [author : Authors, age : AgeVals \ {100}, likes : LikeVals,
                               comments : {0, 1}, kw : {{}}, tribe : Tribes,
                               quality : {FALSE}]] :
                 /\ \A i, j \in 1..4 : i < j => f[i].age <= f[j].age
                 /\ \A i \in 1..3 : f[i].comments = 0
                 /\ \A i \in 1..4 : f[i].age > 168 => f[i].likes = 0}

InitCold ==
  /\ posts \in ColdStores
  /\ archived = {}
  /\ views = {}
  /\ following = [u \in Users |-> {}]
  /\ gInterests = [u \in Users |-> EmptyMap]
  /\ gInteract = [u \in Users |-> <<>>]
  /\ gFollows = {}
  /\ cache = [k \in CacheKeys |-> None]
  /\ req = [s \in Slots |-> IdleReq]
  /\ down = {}
  /\ calls = 0
  /\ faults = 0
  /\ changes = 0
  /\ lastRet = [k \in RecKeys |-> NoRet]
  /\ prof = None
  /\ urec = None
  /\ viewDocs = [pr \in Users \X DOMAIN posts |-> IF pr \in views THEN 1 ELSE 0]
  /\ divr = None
  /\ scored = None
  /\ shuf = None

NextCold ==
  \/ \E l \in Limits : calls = 0 /\ Start(1, "u1", l)
  \/ Profile(1)
  \/ Cands(1)
  \/ Fallback(1)
  \/ Set(1)
  \/ Mark(1)

SpecCold == InitCold /\ [][NextCold]_vars

\* One build of u1's profile, each awaited call of the four fetches resolving
\* or rejecting on its own, over stores and per-signal cache entries drawn
\* from small sets.
ProfileFlags ==
  [cGet : {TRUE}, cSet : {TRUE}, cgI : BOOLEAN, cgF : BOOLEAN, csI : BOOLEAN,
   csF : BOOLEAN, gi : BOOLEAN, gx : BOOLEAN, sf : BOOLEAN, sv : BOOLEAN,
   sp : {TRUE}, l1 : {TRUE}, l2 : {TRUE}, l3 : {TRUE}, sw : {TRUE}]

InterestRows ==
  {EmptyMap} \cup {[t \in Tags |-> [w |-> w, days |-> d]] : w \in {0, 2000}, d \in {7}}

InteractionRows ==
  {<<>>, <<[postId |-> 1, weight |-> 0]>>,
   <<[postId |-> 1, weight |-> 3], [postId |-> 2, weight |-> 2],
     [postId |-> 1, weight |-> 0]>>}

BuildProfile(u, F) ==
  /\ prof = None
  /\ LET pr == buildUserProfile(cache, u, F)
     IN /\ prof' = [user |-> u, F |-> F,
                    pre |-> [ints |-> cache[InterestsKey(u)],
                             fol |-> cache[FollowingKey(u)]],
                    out |-> [thrown |-> pr.thrown, val |-> pr.val]]
        /\ cache' = pr.cache
  /\ UNCHANGED <<StoreVars, views, req, down, calls, faults, changes, lastRet, urec, viewDocs, divr, scored, shuf>>

InitProfile ==
  /\ posts = [i \in 1..3 |-> OldPost]
  /\ archived = {}
  /\ views \in SUBSET {<<"u1", 1>>, <<"u1", 2>>}
  /\ \E S \in SUBSET {"u2"} : following = [u \in Users |-> IF u = "u1" THEN S ELSE {}]
  /\ \E m \in InterestRows : gInterests = [u \in Users |-> IF u = "u1" THEN m ELSE EmptyMap]
  /\ \E r \in InteractionRows : gInteract = [u \in Users |-> IF u = "u1" THEN r ELSE <<>>]
  /\ gFollows = {}
  /\ \E ci \in {None, [val |-> [t \in Tags |-> 500], ttl |-> CACHE_TTL * 2, by |-> "u1"]},
        cf \in {None, [val |-> {"u2"}, ttl |-> CACHE_TTL * 4, by |-> "u1"]} :
       cache = [k \in CacheKeys |->
                  IF k = InterestsKey("u1") THEN ci
                  ELSE IF k = FollowingKey("u1") THEN cf ELSE None]
  /\ req = [s \in Slots |-> IdleReq]
  /\ down = {}
  /\ calls = 0
  /\ faults = 0
  /\ changes = 0
  /\ lastRet = [k \in RecKeys |-> NoRet]
  /\ prof = None
  /\ urec = None
  /\ viewDocs = [pr \in Users \X DOMAIN posts |-> IF pr \in views THEN 1 ELSE 0]
  /\ divr = None
  /\ scored = None
  /\ shuf = None

NextProfile == \E F \in ProfileFlags : BuildProfile("u1", F)

SpecProfile == InitProfile /\ [][NextProfile]_vars

\* People recommendations for u1 over every follow graph on three users (the
\* relationships towards u1 left out: no query of u1's call reads them), the
\* user documents agreeing with the graph at the start.
InitUsers ==
  /\ posts = [i \in 1..3 |-> OldPost]
  /\ archived = {}
  /\ views = {}
  /\ gFollows \in SUBSET {e \in Authors \X Authors : e[1] # e[2] /\ e[2] # "u1"}
  /\ following = [u \in Authors |-> {v \in Authors : <<u, v>> \in gFollows}]
  /\ gInterests \in {[u \in Authors |-> EmptyMap],
                     [u \in Authors |-> [t \in Tags |-> [w |-> 1000, days |-> 0]]]}
  /\ gInteract = [u \in Authors |-> <<>>]
  /\ cache = [k \in CacheKeys |-> None]
  /\ req = [s \in Slots |-> IdleReq]
  /\ down = {}
  /\ calls = 0
  /\ faults = 0
  /\ changes = 0
  /\ lastRet = [k \in RecKeys |-> NoRet]
  /\ prof = None
  /\ urec = None
  /\ viewDocs = [pr \in Users \X DOMAIN posts |-> IF pr \in views THEN 1 ELSE 0]
  /\ divr = None
  /\ scored = None
  /\ shuf = None

NextUsers ==
  \/ \E l \in Limits, F \in UserFlags, o \in Orders, sh \in Orders :
       RecommendUsers("u1", l, F, o, sh)
  \/ \E v \in UserIds, gok \in BOOLEAN : followUser("u1", v, gok)
  \/ \E v \in UserIds : unfollowUser("u1", v)
  \/ \E l \in Limits : CacheExpire(UserRecKey("u1", l))

SpecUsers == InitUsers /\ [][NextUsers]_vars

\* getRecommendedPosts with exceptions raised by scoring or diversity
\* filtering, next to the outages of Spec.
NextThrow ==
  \/ Next
  \/ CandsThrow(1)

SpecThrow == Init /\ [][NextThrow]_vars

\* getRecommendedPosts with signal fetches that may stop answering.  A request
\* that can take its next step takes it (the event loop runs every
\* continuation whose promise has settled); new calls and stalls are up to the
\* environment.  Cands is enabled exactly at pc = "cands" and Fallback exactly
\* at pc = "fallback" when the profile of getFallbackPosts joins, and both
\* leave their pc, so their weak fairness is written on the pc.
RequestFairness ==
  /\ WF_vars(Profile(1))
  /\ []<>(req[1].pc # "cands")
  /\ []<>(req[1].pc # "fallback" \/ ~FallbackJoins(req[1].limit))
  /\ WF_vars(Set(1))
  /\ WF_vars(Mark(1))
  /\ WF_vars(Finish(1))

NextStall ==
  \/ \E u \in Users, l \in Limits : Start(1, u, l)
  \/ Profile(1)
  \/ Cands(1)
  \/ Fallback(1)
  \/ Set(1)
  \/ Mark(1)
  \/ Finish(1)
  \/ \E sig \in Signals : Stall(sig)

SpecStall == Init /\ [][NextStall]_vars /\ RequestFairness

\* applyDiversityFilters on its own: three posts with every combination of
\* author and tribe, every list of scored posts with distinct ids over them
\* (scores chosen so that a penalty changes the order), every limit from 0 to
\* one more than the longest list can use.
DiversityDocs ==
  [author : Users, age : {1}, likes : {0}, comments : {0}, kw : {{}},
   tribe : Tribes \cup {NoTribe}, quality : {FALSE}]

ScoreVals == {10, 14}

ScoredLists ==
  {<<>>} \cup
  UNION {{sl \in [1..n -> [v : 1..3, k : ScoreVals]] :
            \A i, j \in 1..n : i # j => sl[i].v # sl[j].v} : n \in 1..3}

InitDiversity ==
  /\ posts \in [1..3 -> DiversityDocs]
  /\ archived = {}
  /\ views = {}
  /\ following = [u \in Users |-> {}]
  /\ gInterests = [u \in Users |-> EmptyMap]
  /\ gInteract = [u \in Users |-> <<>>]
  /\ gFollows = {}
  /\ cache = [k \in CacheKeys |-> None]
  /\ req = [s \in Slots |-> IdleReq]
  /\ down = {}
  /\ calls = 0
  /\ faults = 0
  /\ changes = 0
  /\ lastRet = [k \in RecKeys |-> NoRet]
  /\ prof = None
  /\ urec = None
  /\ viewDocs = [pr \in Users \X DOMAIN posts |-> 0]
  /\ divr \in [input : ScoredLists, limit : 0..(MaxLimit + 1),
                output : {<<>>}, applied : {FALSE}]
  /\ scored = None
  /\ shuf = None

Diversify ==
  /\ ~divr.applied
  /\ divr' = [divr EXCEPT !.output = applyDiversityFilters(divr.input, divr.limit),
                          !.applied = TRUE]
  /\ UNCHANGED <<StoreVars, views, cache, req, down, calls, faults, changes, lastRet,
                 prof, urec, viewDocs, scored, shuf>>

NextDiversity == Diversify

SpecDiversity == InitDiversity /\ [][NextDiversity]_vars

\* getRecommendedPosts for a user who follows authors: u1 follows u2 and a3, or
\* a3 only, or nobody; the posts are of u1, of the followed authors and of a4,
\* whom nobody follows, from the last hour or four days old, with 0 or 5 likes.
FollowStores ==
  {f \in [1..3 -> [author : Authors \cup {"a4"}, age : {1, 100}, likes : LikeVals,
                   comments : {0}, kw : {{}}, tribe : Tribes, quality : {FALSE}]] :
     \A i, j \in 1..3 : i < j => f[i].age <= f[j].age}

InitFollow ==
  /\ posts \in FollowStores
  /\ archived = {}
  /\ views = {}
  /\ following \in {[u \in Users |-> IF u = "u1" THEN fs ELSE {}] :
                      fs \in {{"u2", "a3"}, {"a3"}, {}}}
  /\ gInterests = [u \in Users |-> EmptyMap]
  /\ gInteract = [u \in Users |-> <<>>]
  /\ gFollows = {}
  /\ cache = [k \in CacheKeys |-> None]
  /\ req = [s \in Slots |-> IdleReq]
  /\ down = {}
  /\ calls = 0
  /\ faults = 0
  /\ changes = 0
  /\ lastRet = [k \in RecKeys |-> NoRet]
  /\ prof = None
  /\ urec = None
  /\ viewDocs = [pr \in Users \X DOMAIN posts |-> 0]
  /\ divr = None
  /\ scored = None
  /\ shuf = None

NextFollow ==
  \/ \E l \in Limits : Start(1, "u1", l)
  \/ Profile(1)
  \/ Cands(1)
  \/ Fallback(1)
  \/ Set(1)
  \/ Mark(1)
  \/ Finish(1)

SpecFollow == InitFollow /\ [][NextFollow]_vars

\* getRecommendedUsers over five users: u1 follows u2, and a3 or not; u2
\* follows any of a3, a4, a5; either nobody has interests or all share a tag.
\* One call, with every outcome of its awaited calls and every row order.
TierUsers == Authors \cup {"a4", "a5"}

TierGraphs ==
  {{<<"u1", "u2">>} \cup own \cup {<<"u2", r>> : r \in S} :
     own \in {{}, {<<"u1", "a3">>}}, S \in SUBSET {"a3", "a4", "a5"}}

InitTiers ==
  /\ posts = [i \in 1..3 |-> OldPost]
  /\ archived = {}
  /\ views = {}
  /\ gFollows \in TierGraphs
  /\ following = [u \in TierUsers |-> {v \in TierUsers : <<u, v>> \in gFollows}]
  /\ gInterests \in {[u \in TierUsers |-> EmptyMap],
                     [u \in TierUsers |-> [t \in Tags |-> [w |-> 1000, days |-> 0]]]}
  /\ gInteract = [u \in TierUsers |-> <<>>]
  /\ cache = [k \in CacheKeys |-> None]
  /\ req = [s \in Slots |-> IdleReq]
  /\ down = {}
  /\ calls = 0
  /\ faults = 0
  /\ changes = 0
  /\ lastRet = [k \in RecKeys |-> NoRet]
  /\ prof = None
  /\ urec = None
  /\ viewDocs = [pr \in Users \X DOMAIN posts |-> 0]
  /\ divr = None
  /\ scored = None
  /\ shuf = None

NextTiers ==
  \E l \in Limits, F \in TierFlags, o \in Orders :
    calls = 0 /\ RecommendUsers("u1", l, F, o, o)

SpecTiers == InitTiers /\ [][NextTiers]_vars

\* scorePostsAdvanced on its own: two posts that agree on everything but
\* their likes and comments, scored for every profile whose interests are
\* empty or give the tags t1 and t2 a negative, zero or positive weight.
ScoreStores ==
  {f \in [1..2 -> [author : {"u2"}, age : {1, 100}, likes : {0, 1, 5},
                   comments : {0, 2}, kw : {{}, {"t1"}}, tribe : {NoTribe, "tr1"},
                   quality : BOOLEAN]] :
     /\ f[1].age = f[2].age /\ f[1].kw = f[2].kw
     /\ f[1].tribe = f[2].tribe /\ f[1].quality = f[2].quality}

ScoreProfiles ==
  [interests : {EmptyMap} \cup [{"t1", "t2"} -> {-1000, 0, 1000}],
   following : {{}, {"u2"}}, viewedPosts : {{}},
   recentInteractions : {EmptyMap, [x \in {1} |-> 3], [x \in {1, 2} |-> 3]}]

InitScore ==
  /\ posts \in ScoreStores
  /\ archived = {}
  /\ views = {}
  /\ following = [u \in Users |-> {}]
  /\ gInterests = [u \in Users |-> EmptyMap]
  /\ gInteract = [u \in Users |-> <<>>]
  /\ gFollows = {}
  /\ cache = [k \in CacheKeys |-> None]
  /\ req = [s \in Slots |-> IdleReq]
  /\ down = {}
  /\ calls = 0
  /\ faults = 0
  /\ changes = 0
  /\ lastRet = [k \in RecKeys |-> NoRet]
  /\ prof = None
  /\ urec = None
  /\ viewDocs = [pr \in Users \X DOMAIN posts |-> 0]
  /\ divr = None
  /\ scored \in [profile : ScoreProfiles, out : {<<>>}, applied : {FALSE}]
  /\ shuf = None

ScorePosts ==
  /\ ~scored.applied
  /\ scored' = [scored EXCEPT !.out = scorePostsAdvanced(<<1, 2>>, scored.profile),
                              !.applied = TRUE]
  /\ UNCHANGED <<StoreVars, views, cache, req, down, calls, faults, changes, lastRet,
                 prof, urec, viewDocs, divr, shuf>>

NextScore == ScorePosts

SpecScore == InitScore /\ [][NextScore]_vars

\* ----------------------------------------------- shuffleWithRelevance alone
\* The longest list shuffled, the largest commonFollowers of an element, and
\* the number of values Math.random() takes: 0, 1 / RandUnits, ...,
\* (RandUnits - 1) / RandUnits.
MaxShuffled == 3
MaxCommon == 2
RandUnits == 4

\* The lists handed to shuffleWithRelevance: users with distinct ids, each
\* with its commonFollowers count, in any order.
ShuffleInputs ==
  UNION {{us \in [1..n -> [id : 1..MaxShuffled, commonFollowers : 0..MaxCommon]] :
            \A i, j \in 1..n : i # j => us[i].id # us[j].id} : n \in 0..MaxShuffled}

\* The function up to its loop: weighted holds every user with the weight
\* commonFollowers + 1, result is empty.
InitShuffle ==
  /\ posts \in {[i \in 1..1 |-> [author |-> "u2", age |-> 1, likes |-> 0, comments |-> 0,
                                 kw |-> {}, tribe |-> NoTribe, quality |-> FALSE]]}
  /\ archived = {}
  /\ views = {}
  /\ following = [u \in Users |-> {}]
  /\ gInterests = [u \in Users |-> EmptyMap]
  /\ gInteract = [u \in Users |-> <<>>]
  /\ gFollows = {}
  /\ cache = [k \in CacheKeys |-> None]
  /\ req = [s \in Slots |-> IdleReq]
  /\ down = {}
  /\ calls = 0
  /\ faults = 0
  /\ changes = 0
  /\ lastRet = [k \in RecKeys |-> NoRet]
  /\ prof = None
  /\ urec = None
  /\ viewDocs = [pr \in Users \X DOMAIN posts |-> 0]
  /\ divr = None
  /\ scored = None
  /\ shuf \in {[users |-> us,
                weighted |-> [i \in 1..Len(us) |->
                                [user |-> us[i], weight |-> us[i].commonFollowers + 1]],
                result |-> <<>>, draws |-> 0, failed |-> FALSE] : us \in ShuffleInputs}

\* weighted.findIndex(({ weight }) => { rand -= weight; return rand <= 0; })
\* from element i on, rand in units of 1 / RandUnits; 0 stands for the -1 of
\* a search that found no element.
RECURSIVE findIndex(_, _, _)
findIndex(weighted, rand, i) ==
  IF i > Len(weighted) THEN 0
  ELSE IF rand - weighted[i].weight * RandUnits <= 0 THEN i
  ELSE findIndex(weighted, rand - weighted[i].weight * RandUnits, i + 1)

\* weighted.splice(index, 1) taking out the first element instead.
spliceFirst(weighted, index) == Tail(weighted)

\* weighted.splice(index, 1)
splice(weighted, index) ==
  [i \in 1..(Len(weighted) - 1) |-> IF i < index THEN weighted[i] ELSE weighted[i + 1]]

\* One turn of the while loop: rand = Math.random() * totalWeight, the search
\* for the drawn element, its push to result and its removal from weighted.
\* A search without a match makes weighted[index] undefined and the read of
\* its user throw.
ShuffleDraw ==
  /\ shuf # None
  /\ ~shuf.failed
  /\ Len(shuf.weighted) > 0
  /\ \E random \in 0..(RandUnits - 1) :
       LET weighted == shuf.weighted
           totalWeight == SumMap([i \in 1..Len(weighted) |-> weighted[i].weight],
                                 1..Len(weighted))
           index == findIndex(weighted, random * totalWeight, 1)
       IN shuf' = IF index = 0
                  THEN [shuf EXCEPT !.draws = @ + 1, !.failed = TRUE]
                  ELSE [shuf EXCEPT !.draws = @ + 1,
                                    !.result = Append(@, weighted[index].user),
                                    !.weighted = splice(weighted, index)]
  /\ UNCHANGED <<StoreVars, views, cache, req, down, calls, faults, changes, lastRet,
                 prof, urec, viewDocs, divr, scored>>

NextShuffle == ShuffleDraw

SpecShuffle == InitShuffle /\ [][NextShuffle]_vars

\* ------------------------------- two requests of one user running together
\* A second getRecommendedPosts call of u1 with the same limit starts while
\* the first is under way; their awaits interleave in any order.
\* The state the two calls start in: nothing cached, or what an earlier call
\* getRecommendedPosts(u2, prior) through the Fallback Cascade left behind:
\* its list under fallback_posts:{prior} and recommendations:u2:{prior}, and
\* its view records.
InitRace ==
  /\ posts \in Stores
  /\ archived = {3}
  /\ following = [u \in Users |-> {}]
  /\ gInterests = [u \in Users |-> EmptyMap]
  /\ gInteract = [u \in Users |-> <<>>]
  /\ gFollows = {}
  /\ \E prior \in 0..MaxLimit :
       LET pool == {x \in FallbackEligible("u2", {}) :
                      posts[x].age <= 72 /\ posts[x].likes >= 5}
           list == IF prior = 0 \/ pool # {} THEN <<>>
                   ELSE basicDiversityFilter(FallbackTiers(prior, "u2", {}, AllOk), prior)
           empty == [k \in CacheKeys |-> None]
       IN /\ cache = IF prior = 0 \/ pool # {} THEN empty
                     ELSE CacheSet(CacheSet(empty, FallbackKey(prior), list, CACHE_TTL,
                                            <<"u2", prior>>),
                                   RecKey("u2", prior), list, CACHE_TTL, <<"u2", prior>>)
          /\ views = markPostsAsViewed({}, "u2", list, Len(list))
  /\ req = [s \in Slots |-> IdleReq]
  /\ down = {}
  /\ calls = 0
  /\ faults = 0
  /\ changes = 0
  /\ lastRet = [k \in RecKeys |-> NoRet]
  /\ prof = None
  /\ urec = None
  /\ viewDocs = [pr \in Users \X DOMAIN posts |-> IF pr \in views THEN 1 ELSE 0]
  /\ divr = None
  /\ scored = None
  /\ shuf = None

NextRace ==
  \/ \E l \in Limits : calls = 0 /\ Start(1, "u1", l)
  \/ req[1].pc # "idle" /\ Start(2, "u1", req[1].limit)
  \/ \E s \in Slots : Profile(s)
  \/ \E s \in Slots : Cands(s)
  \/ \E s \in Slots : Fallback(s)
  \/ \E s \in Slots : Set(s)
  \/ \E s \in Slots : Mark(s)

SpecRace == InitRace /\ [][NextRace]_vars

\* Requests of u1 and u2 reaching markPostsAsViewed concurrently, over view
\* stores with or without a record of u1 for post 1.
IdLists == {<<1>>, <<2>>, <<1, 2>>, <<2, 1>>}

InitViews ==
  /\ posts \in Stores
  /\ archived = {3}
  /\ views \in {{}, {<<"u1", 1>>}}
  /\ following = [u \in Users |-> {}]
  /\ gInterests = [u \in Users |-> EmptyMap]
  /\ gInteract = [u \in Users |-> <<>>]
  /\ gFollows = {}
  /\ cache = [k \in CacheKeys |-> None]
  /\ req = [s \in Slots |-> IdleReq]
  /\ down = {}
  /\ calls = 0
  /\ faults = 0
  /\ changes = 0
  /\ lastRet = [k \in RecKeys |-> NoRet]
  /\ prof = None
  /\ urec = None
  /\ viewDocs = [pr \in Users \X DOMAIN posts |-> IF pr \in views THEN 1 ELSE 0]
  /\ divr = None
  /\ scored = None
  /\ shuf = None

NextViews ==
  \/ \E s \in Slots, u \in Users, ids \in IdLists : markBegin(s, u, ids)
  \/ \E s \in Slots : upsertMatch(s)
  \/ \E s \in Slots : upsertWrite(s)

SpecViews == InitViews /\ [][NextViews]_vars

\* ----------------------------------------------------------------- claims
Returned(s) == req[s].pc = "done" /\ req[s].out = "ok"

\* Every awaited call of the request resolved.
Clean(s) == ~req[s].cerr /\ ~req[s].gerr /\ req[s].sstat = "ok"

\* The user has no interests and follows nobody.
Cold(u) == following[u] = {} /\ DOMAIN gInterests[u] = {}

\* The list was computed by this request: no cache entry supplied it.
Computed(s) == req[s].path \in {"primary", "fallback"} /\ req[s].src = Fresh

\* C1: no list returned to a user contains an archived post, a post the user
\* authored, or a post that was in the user's view records when the call began.
C1_NoExcludedPostReturned ==
  \A s \in Slots : Returned(s) =>
    \A i \in 1..Len(req[s].result) :
      /\ req[s].result[i] \notin archived
      /\ posts[req[s].result[i]].author # req[s].user
      /\ req[s].result[i] \notin req[s].seen0

\* C3: a rejected cache get or set, with every store and graph call
\* resolving, never makes getRecommendedPosts fail: the caller receives a list.
C3_CacheFailureNeverFails ==
  \A s \in Slots :
    (req[s].pc = "done" /\ ~req[s].gerr /\ req[s].sstat \in {"none", "ok"})
      => req[s].out = "ok"

\* C5: every cached value that supplies the list returned for (userId, limit)
\* was computed for that same userId and limit.
C5_ServedValueComputedForRequest ==
  \A s \in Slots : Returned(s) =>
    req[s].src \in {Fresh, <<req[s].user, req[s].limit>>}

C8_ShortPrimaryInvokesFallback ==
  \A s \in Slots :
    (Returned(s) /\ req[s].path = "primary") => Len(req[s].result) >= req[s].limit

\* C9: a call made while the entry written for the same (userId, limit) by an
\* earlier call is still cached, and whose cache read resolves, returns the
\* list the earlier call returned, whatever happened to the stores in between.
C9_RepeatedCallSameList ==
  \A s \in Slots :
    (Returned(s) /\ ~req[s].cerr /\ lastRet[RecKey(req[s].user, req[s].limit)] # NoRet)
      => req[s].result = lastRet[RecKey(req[s].user, req[s].limit)]

C9_Witness ==
  \E s \in Slots :
    /\ Returned(s) /\ ~req[s].cerr
    /\ req[s].result = lastRet[RecKey(req[s].user, req[s].limit)]
    /\ \E i \in 1..Len(req[s].result) : req[s].result[i] \in archived \cap req[s].seen0

\* C10 as stated: when every post-store and view-store read of the request
\* fails, getRecommendedPosts ends with an error instead of a list.
C10_UnreachableStoresFail ==
  \A s \in Slots :
    (req[s].pc = "done" /\ req[s].sstat = "err") => req[s].out = "error"

\* C10 amended: when every post-store and view-store call of the request
\* fails, getRecommendedPosts does not propagate that failure: it ends in an
\* error only when a cache call of the request rejected as well, and the list
\* it returns otherwise is empty unless a cache entry supplied it.
C10_UnreachableStoresReturnList ==
  \A s \in Slots :
    (req[s].pc = "done" /\ req[s].sstat = "err")
      => /\ req[s].out = "error" => req[s].cerr
         /\ (req[s].out = "ok" /\ req[s].src = Fresh) => req[s].result = <<>>

C10_Witness ==
  \E s \in Slots :
    /\ Returned(s) /\ req[s].sstat = "err" /\ ~req[s].cerr
    /\ req[s].nElig0 >= 1
    /\ req[s].result = <<>>

\* The fallback tier a post's age puts it in.
TierOf(x) == IF posts[x].age <= 168 THEN 1 ELSE IF posts[x].age <= 720 THEN 2 ELSE 3

\* A candidate of the popularity branch: 5 likes or more in the last 3 days.
Trending(u) ==
  {x \in FallbackEligible(u, {}) : posts[x].age <= 72 /\ posts[x].likes >= 5}

\* The first call of a user without interests, follows and views, on an empty
\* cache, with more eligible posts than the limit.
NewUserCall(s) ==
  /\ req[s].pc = "done" /\ calls = 1
  /\ Cold(req[s].user) /\ req[s].seen0 = {}
  /\ req[s].nElig0 > req[s].limit

C4_FailedSignalDefaultsOthersKept ==
  (prof # None /\ prof.F.cgI /\ prof.F.cgF) =>
    LET u == prof.user
        F == prof.F
        v == prof.out.val
        hitI == prof.pre.ints # None
        hitF == prof.pre.fol # None
        failI == ~hitI /\ (~F.gi \/ ~F.csI)
        failF == ~hitF /\ (~F.sf \/ ~F.csF)
        rows == gInteract[u]
    IN /\ ~prof.out.thrown
       /\ v.interests =
            IF failI THEN EmptyMap
            ELSE IF hitI THEN prof.pre.ints.val
            ELSE [t \in DOMAIN gInterests[u] |->
                    DecayedWeight(gInterests[u][t].w, gInterests[u][t].days)]
       /\ v.following =
            IF failF THEN {} ELSE IF hitF THEN prof.pre.fol.val ELSE following[u]
       /\ v.viewedPosts = IF ~F.sv THEN {} ELSE ViewedOf(u)
       /\ DOMAIN v.recentInteractions =
            IF ~F.gx THEN {} ELSE {rows[i].postId : i \in 1..Len(rows)}

C4_Witness ==
  /\ prof # None
  /\ prof.F = [AllOk EXCEPT !.sv = FALSE]
  /\ prof.pre.ints = None /\ prof.pre.fol = None
  /\ ~prof.out.thrown
  /\ ViewedOf(prof.user) # {} /\ prof.out.val.viewedPosts = {}
  /\ prof.out.val.following = {"u2"}
  /\ DOMAIN prof.out.val.interests = Tags
  /\ DOMAIN prof.out.val.recentInteractions = {1, 2}

\* C2: the list getRecommendedUsers returns to a user never contains that
\* user nor a user that user follows when the list is returned.
C2_NeverSelfNorFollowed ==
  (urec # None /\ ~urec.thrown) =>
    \A i \in 1..Len(urec.result) :
      /\ urec.result[i].id # urec.user
      /\ urec.result[i].id \notin urec.following

\* C11: after any interleaving of the upserts of markPostsAsViewed calls, the
\* view store holds at most one document for each (userId, postId) pair.
C11_OneViewRecordPerPair ==
  \A pr \in DOMAIN viewDocs : viewDocs[pr] <= 1

\* C12: when the viewed-upsert of a request fails, the caller still receives
\* the list the request computed before the upsert, and the request does not
\* go on to write another value over the cache entry of that list.
C12_ViewedUpsertFailureKeepsResult ==
  \A s \in Slots :
    req[s].mfail =>
      /\ req[s].pc # "catchset"
      /\ req[s].pc = "done" => (req[s].out = "ok" /\ req[s].result = req[s].computed)

\* C19: every write of a Fallback Cascade result under recommendations:{userId}:
\* {limit}, from the empty candidate pool or from the catch block, carries a
\* TTL strictly shorter than CACHE_TTL, the TTL of a primary result.
C19_FallbackCachedWithShorterTTL ==
  [][\A s \in Slots :
       ( /\ req[s].pc \in {"set", "catchset"}
         /\ req[s].path \in {"fallback", "catch"}
         /\ req'[s].pc = "mark" \/ (req'[s].pc = "done" /\ req'[s].out = "ok") )
       => cache'[RecKey(req[s].user, req[s].limit)].ttl < CACHE_TTL]_vars

\* C20: a request in which scoring or diversity filtering raised, or in which
\* candidate retrieval failed with a store error, and whose cache calls
\* resolve, does not raise: it returns the list getFallbackPosts answered for
\* its user, after writing that list under recommendations:{userId}:{limit}.
C20_PipelineFailureReturnsFallback ==
  \A s \in Slots :
    (req[s].pc = "done" /\ req[s].cfault # "none" /\ ~req[s].cerr) =>
      /\ req[s].out = "ok"
      /\ req[s].path \in {"fallback", "catch"}
      /\ req[s].result = req[s].recs
      /\ req[s].wrote = req[s].result

C20_Witness ==
  \E s \in Slots :
    /\ req[s].pc = "done" /\ req[s].cfault = "throw" /\ ~req[s].cerr
    /\ req[s].out = "ok" /\ req[s].path = "catch"
    /\ req[s].result # <<>> /\ req[s].wrote = req[s].result

\* C13: a call of getRecommendedPosts that is building its profile while one
\* of the four signal fetches never completes still eventually returns.
C13_StalledSignalStillReturns ==
  (req[1].pc = "profile" /\ ~ProfileJoins) ~> (req[1].pc = "done")

\* C16: for every list of scored candidates with pairwise distinct ids and
\* every limit >= 0, applyDiversityFilters returns at most limit items, with
\* pairwise distinct ids, each the id of a post of the input.
C16_DiversityBoundedDistinctFromInput ==
  divr.applied =>
    /\ Len(divr.output) <= divr.limit
    /\ \A i, j \in 1..Len(divr.output) :
         i # j => divr.output[i].v # divr.output[j].v
    /\ \A i \in 1..Len(divr.output) :
         \E j \in 1..Len(divr.input) : divr.input[j].v = divr.output[i].v

C16_Witness ==
  /\ divr.applied
  /\ Len(divr.input) = 3 /\ divr.limit = 2 /\ Len(divr.output) = 2
  /\ posts[divr.output[1].v].author = posts[divr.output[2].v].author
  /\ \E i \in 1..2, j \in 1..3 :
       divr.input[j].v = divr.output[i].v /\ divr.output[i].k < divr.input[j].k

\* The posts of author a that are not archived, not among the viewed posts
\* seen and were created in the last hour.
FreshPostsOf(a, seen) ==
  {x \in PostIds : posts[x].author = a /\ x \notin archived /\ x \notin seen
                     /\ posts[x].age <= 1}

\* C14: when the user follows two authors, each with exactly one post, that
\* post being not archived, unviewed and of the last hour, and has no other
\* signal, a call with limit >= 2 on an empty cache returns these two posts as
\* its first two items, the one with the higher engagement score first.
C14_FollowedPostsRankFirst ==
  \A s \in Slots :
    LET u == req[s].user
        mine == {x \in PostIds : posts[x].author \in following[u]}
    IN ( /\ Returned(s) /\ Computed(s) /\ req[s].limit >= 2
         /\ Cardinality(following[u]) = 2
         /\ DOMAIN gInterests[u] = {} /\ gInteract[u] = <<>>
         /\ \A a \in following[u] :
              /\ Cardinality({x \in PostIds : posts[x].author = a}) = 1
              /\ Cardinality(FreshPostsOf(a, req[s].seen0)) = 1 )
       => /\ Len(req[s].result) >= 2
          /\ {req[s].result[1], req[s].result[2]} = mine
          /\ EngagementScore(posts[req[s].result[1]].likes,
                             posts[req[s].result[1]].comments)
               >= EngagementScore(posts[req[s].result[2]].likes,
                                  posts[req[s].result[2]].comments)

\* C15: getCandidatePosts returns, newest first and at most
\* MAX_POSTS_TO_SCORE, exactly the posts that are not archived, not the
\* user's own, not in viewedPosts, and either of a followed author, or with a
\* keyword among the user's interests, or of the last 3 days with 5 likes.
C15_CandidatesAreTheEligiblePosts ==
  \A s \in Slots :
    req[s].pc = "cands" =>
      LET u == req[s].user
          p == req[s].profile
      IN getCandidatePosts(u, p, Now) =
           StoreFind({x \in PostIds :
                        /\ x \notin archived
                        /\ posts[x].author # u
                        /\ x \notin p.viewedPosts
                        /\ \/ posts[x].author \in p.following
                           \/ posts[x].kw \cap DOMAIN p.interests # {}
                           \/ posts[x].age <= 72 /\ posts[x].likes >= 5},
                     MAX_POSTS_TO_SCORE)

\* C17: getRecommendedUsers(userId, limit) returns at most limit entries, also
\* when the first query alone returns more than limit users.
C17_AtMostLimitUsers ==
  (urec # None /\ ~urec.thrown) => Len(urec.result) <= urec.limit

\* C18: when the first or the second graph query of getRecommendedUsers fails,
\* the later tiers still run with their exclusions (no returned user is the
\* requester or followed by the requester) and the users an earlier tier
\* found are kept, with their counts.
C18_TiersFaultIsolated ==
  (urec # None /\ ~urec.thrown /\ urec.gfail \in {1, 2}) =>
    LET u == urec.user
        ids == {urec.result[i].id : i \in 1..Len(urec.result)}
    IN /\ u \notin ids
       /\ \A r \in ids : ~Follows(u, r)
       /\ urec.gfail = 2 =>
            \A r \in UserIds \ {u} :
              (~Follows(u, r) /\ CommonFollowers(u, r) # {}) =>
                \E i \in 1..Len(urec.result) :
                  /\ urec.result[i].id = r
                  /\ urec.result[i].commonFollowers = Cardinality(CommonFollowers(u, r))

\* C21: for a fixed profile, of two candidates that differ only in their like
\* count or only in their comment count (same author, age, keywords, tribe,
\* quality and recent-interaction weight), the one with the larger count gets
\* a score greater than or equal to the other's.
C21_ScoreMonotoneInLikesAndComments ==
  scored.applied =>
    LET ri == scored.profile.recentInteractions
    IN \A i, j \in 1..2 :
         ( /\ (i \in DOMAIN ri) = (j \in DOMAIN ri)
           /\ \/ posts[i].likes >= posts[j].likes
                 /\ posts[i].comments = posts[j].comments
              \/ posts[i].comments >= posts[j].comments
                 /\ posts[i].likes = posts[j].likes )
         => scored.out[i].k >= scored.out[j].k

C21_Witness ==
  /\ scored.applied
  /\ posts[1].likes > posts[2].likes /\ posts[1].comments = posts[2].comments
  /\ scored.out[1].k > scored.out[2].k
  /\ DOMAIN scored.profile.interests # {} /\ posts[1].kw # {}
  /\ DOMAIN scored.profile.recentInteractions = {1, 2}

\* C26: for every candidate and every profile, also one whose interest
\* weights sum to zero or include zero or negative weights, every score of
\* scorePostsAdvanced is a finite number: no interest term is the result of a
\* division by a zero total.
C26_ScoresAreFinite ==
  scored.applied => \A i \in 1..2 : scored.out[i].k < Infinity

\* C22: the output of applyDiversityFilters is in non-increasing order of
\* post-penalty score, and no candidate of the input that is left out has,
\* after the penalties of one pass over the whole input, a score strictly
\* higher than a candidate that is in the output.
C22_TopLimitByPenalisedScore ==
  divr.applied =>
    LET full == DiversityWalk(SortDesc(divr.input), Len(divr.input), <<>>, {}, {})
        out == divr.output
        ids == {out[i].v : i \in 1..Len(out)}
    IN /\ \A i, j \in 1..Len(out) : i < j => out[i].k >= out[j].k
       /\ \A c \in 1..Len(full) :
            full[c].v \notin ids => \A i \in 1..Len(out) : full[c].k <= out[i].k

C24_TiersFillOnlyTheDeficit ==
  \A s \in Slots :
    (req[s].pc = "set" /\ req[s].path = "fallback") =>
      LET limit == req[s].limit
          u == req[s].user
          level1 == getFallbackLevel1(limit, u, ViewedOf(u), Now)
          level12 == appendLevel2(level1, limit, u, ViewedOf(u), Now)
          level123 == appendLevel3(level12, limit, u, ViewedOf(u), Now)
      IN /\ Len(level1) <= limit
         /\ Len(level12) <= limit
         /\ Len(level123) <= limit
         /\ Len(level1) >= limit => level12 = level1
         /\ Len(level12) >= limit => level123 = level12

\* C25: fallback tier 1 answers with non-archived posts of the last 7 days in
\* non-increasing order of likes + 2 * comments, and no eligible post of the
\* last 7 days that it leaves out has a strictly higher engagement value than
\* a post it returns.
C25_Level1RanksTheWeekByEngagement ==
  \A s \in Slots :
    (req[s].pc = "set" /\ req[s].path = "fallback") =>
      LET u == req[s].user
          level1 == getFallbackLevel1(req[s].limit, u, ViewedOf(u), Now)
          inside == {level1[i] : i \in 1..Len(level1)}
          week == {x \in FallbackEligible(u, ViewedOf(u)) : posts[x].age <= 168}
      IN /\ inside \subseteq week
         /\ \A i, j \in 1..Len(level1) :
              i < j => Engagement(level1[i]) >= Engagement(level1[j])
         /\ \A x \in week \ inside, y \in inside : Engagement(x) <= Engagement(y)

\* C29: the list returned by getFallbackPosts never holds the same post id
\* twice, also when tier 1 or tier 2 returned fewer than limit posts and
\* tier 3 is appended to them.
C29_FallbackListHasNoDuplicates ==
  \A s \in Slots :
    (req[s].pc = "set" /\ req[s].path = "fallback") =>
      \A i, j \in 1..Len(req[s].recs) :
        i # j => req[s].recs[i] # req[s].recs[j]

\* C27: shuffleWithRelevance samples without replacement: for every list of
\* users with commonFollowers >= 0 and every outcome of the random draws, no
\* draw fails, every turn of the loop takes one user out of the remaining
\* ones, and when none remains the loop has drawn exactly as many times as
\* there are users and the result is a permutation of the input.
C27_ShuffleIsAPermutation ==
  shuf # None =>
    /\ ~shuf.failed
    /\ shuf.draws + Len(shuf.weighted) = Len(shuf.users)
    /\ Len(shuf.weighted) = 0 =>
         /\ shuf.draws = Len(shuf.users)
         /\ Len(shuf.result) = Len(shuf.users)
         /\ Range(shuf.result) = Range(shuf.users)

C27_Witness ==
  /\ shuf # None
  /\ Len(shuf.users) = 3 /\ Len(shuf.weighted) = 0 /\ shuf.draws = 3
  /\ shuf.result[1] = shuf.users[3] /\ shuf.result[2] = shuf.users[1]
  /\ shuf.users[1].commonFollowers = 0 /\ shuf.users[3].commonFollowers = 2

\* C28: when two getRecommendedPosts requests of one user with one limit run
\* concurrently and both miss the cache, both complete without error, each
\* returns at most limit posts, none of them written by the user, viewed by
\* the user before the request or archived, and every cache write of a request
\* leaves under recommendations:{userId}:{limit} the list that request
\* computed, so that the entry is the list of the request that wrote last.
C28_ConcurrentMissesBothComplete ==
  /\ []((\A t \in Slots : req[t].pc = "done" /\ req[t].path # "hit") =>
        \A s \in Slots :
            /\ req[s].out = "ok"
            /\ Len(req[s].result) <= req[s].limit
            /\ \A i \in 1..Len(req[s].result) :
                 /\ req[s].result[i] \notin archived
                 /\ posts[req[s].result[i]].author # req[s].user
                 /\ req[s].result[i] \notin req[s].seen0)
  /\ [][\A s \in Slots :
          (req[s].pc = "set" /\ req'[s].pc = "mark") =>
            cache'[RecKey(req[s].user, req[s].limit)].val = req[s].recs]_vars

\* C30: once a cache-miss call has returned a list to a user and recorded it
\* as viewed, no post of that list is returned to the user by a later call
\* that misses the result cache while the view records are inside the 7-day
\* window, whether the later call is served by the primary pipeline or by
\* the Fallback Cascade. (While no backend has failed, the view records of a
\* user are exactly the posts returned to that user by cache-miss calls.)
C30_ViewedPostsNotReturnedAgain ==
  \A s \in Slots :
    (Returned(s) /\ req[s].path # "hit" /\ faults = 0) =>
      \A i \in 1..Len(req[s].result) : req[s].result[i] \notin req[s].seen0

====
